---- MODULE Spec2Model ----
(***************************************************************************)
(* Model of github.com/jasonmoo/cryp: the envelope codec (Encrypt and      *)
(* Decrypt), the file codec (EncryptFile and DecryptFile) and the          *)
(* directory walkers (EncryptDirFiles and DecryptDirFiles).                *)
(*                                                                         *)
(* Bytes are the integers 0..255, byte strings and Go strings are          *)
(* sequences of bytes.  The primitives of the Go standard library that the *)
(* code calls (SHA-512, scrypt, AES, HMAC-SHA-256, gzip, tar) are          *)
(* stand-ins that are computed byte by byte: small arithmetic functions    *)
(* with the shape of the real ones (fixed output sizes, keyed, a header    *)
(* and a checked trailer for gzip, a header and an end marker for tar).    *)
(* An error value is a string, "" is nil.                                  *)
(***************************************************************************)
EXTENDS Integers, Sequences, FiniteSets, TLC

VARIABLES
    enc,     \* the last Encrypt call: its arguments and what it returned
    dec,     \* the frame of the Decrypt call in progress, step by step
    fs,      \* the filesystem: path -> entry
    umask,   \* the file mode creation mask of the process
    rand,    \* crypto/rand: the stream in use and how many IVs were drawn
    call,    \* the library call in progress or last returned
    hist     \* history: the filesystem at Init and at the start of the call

vars == <<enc, dec, fs, umask, rand, call, hist>>

\* ---------------------------------------------------------------- bounds

\* how many different random streams crypto/rand can be
NumIV == 2

\* how many optional entries an initial tree holds besides the base tree
MaxExtras == 1

\* ------------------------------------------------------- program constants

\* aes.BlockSize
BlockSize == 16

\* sha256.Size: the length of an HMAC-SHA-256 digest in bytes
Sha256Size == 32

\* const SignatureSize = sha256.Size * 2, the {64} of sha256HexRegexp
SignatureSize == Sha256Size * 2

\* keyLen of generate32ByteKey
keyLen == 32

\* ------------------------------------------------------------ arithmetic

Min(a, b) == IF a < b THEN a ELSE b

\* the element of a set of one element; Only({e : x \in {v}}) is e with v
\* for x, v evaluated once however often e uses x
Only(S) == CHOOSE y \in S : TRUE

RECURSIVE XorBits(_, _, _)
XorBits(a, b, n) ==
    IF n = 0 THEN 0
    ELSE ((a + b) % 2) + 2 * XorBits(a \div 2, b \div 2, n - 1)

RECURSIVE AndBits(_, _, _)
AndBits(a, b, n) ==
    IF n = 0 THEN 0
    ELSE ((a % 2) * (b % 2)) + 2 * AndBits(a \div 2, b \div 2, n - 1)

\* a ^ b on bytes
Xor(a, b) == XorBits(a, b, 8)

RECURSIVE Pow2(_)
Pow2(k) == IF k = 0 THEN 1 ELSE 2 * Pow2(k - 1)

\* the byte b with bit k (0..7) inverted
FlipBit(b, k) == Xor(b, Pow2(k))

\* the byte string s with bit k of its byte i inverted
FlipAt(s, i, k) == [s EXCEPT ![i] = FlipBit(s[i], k)]

\* the modulus of the polynomial digests
FoldMod == 32749

\* the digest of s[lo..hi] and the weight of a string of that length
RECURSIVE FoldRange(_, _, _)
FoldRange(s, lo, hi) ==
    IF lo > hi THEN [v |-> 0, p |-> 1]
    ELSE IF lo = hi THEN [v |-> (s[lo] + 1) % FoldMod, p |-> 257]
    ELSE Only({[v |-> (h[1].v * h[2].p + h[2].v) % FoldMod,
                p |-> (h[1].p * h[2].p) % FoldMod] :
               h \in {<<FoldRange(s, lo, (lo + hi) \div 2),
                        FoldRange(s, ((lo + hi) \div 2) + 1, hi)>>}})

\* a polynomial digest of the bytes s, continued from h:
\* h * 257^n + (s[1] + 1) * 257^(n-1) + ... + (s[n] + 1), modulo FoldMod
Fold(s, h) == Only({(h * f.p + f.v) % FoldMod : f \in {FoldRange(s, 1, Len(s))}})

\* ------------------------------------------------------------ primitives

\* sha512.Sum512(input): 64 bytes
Sum512(input) ==
    Only({[j \in 1..64 |-> (h * j + 5 * j) % 256] : h \in {Fold(input, 11)}})

\* scrypt.Key(input, salt, N, r, p, keyLen): keyLen bytes
scryptKey(input, salt) ==
    Only({[j \in 1..keyLen |-> (h * j + salt[j] + salt[j + keyLen]) % 256] :
          h \in {Fold(salt, Fold(input, 3))}})

\* func generate32ByteKey(input []byte) []byte
generate32ByteKey(input) == Only({scryptKey(input, salt) : salt \in {Sum512(input)}})

\* the AES block transform under key k of one block
aesBlock(k, block) ==
    [j \in 1..BlockSize |->
        (block[j] + 2 * block[(j % BlockSize) + 1] + k[j] + k[j + BlockSize]) % 256]

\* cipher.NewCFBEncrypter(block, iv).XORKeyStream(dst, src)
RECURSIVE cfbEncrypt(_, _, _)
cfbEncrypt(k, prev, src) ==
    IF src = <<>> THEN <<>>
    ELSE LET n  == Min(BlockSize, Len(src))
             ks == aesBlock(k, prev)
             ct == [j \in 1..n |-> Xor(src[j], ks[j])]
         IN  IF n < BlockSize THEN ct
             ELSE ct \o cfbEncrypt(k, ct, SubSeq(src, n + 1, Len(src)))

\* the same with the plaintext fed back: a decrypter that is wrong after
\* the first block
RECURSIVE cfbDecryptFeedsPlaintext(_, _, _)
cfbDecryptFeedsPlaintext(k, prev, src) ==
    IF src = <<>> THEN <<>>
    ELSE LET n  == Min(BlockSize, Len(src))
             ks == aesBlock(k, prev)
             pt == [j \in 1..n |-> Xor(src[j], ks[j])]
         IN  IF n < BlockSize THEN pt
             ELSE pt \o cfbDecryptFeedsPlaintext(k, pt, SubSeq(src, n + 1, Len(src)))

\* cipher.NewCFBDecrypter(block, iv).XORKeyStream(dst, src): block b of the
\* key stream is the transform of ciphertext block b - 1, the IV for b = 1
cfbDecrypt(k, iv, src) ==
    LET nb == (Len(src) + BlockSize - 1) \div BlockSize
        ks == [b \in 1..nb |->
                  aesBlock(k, IF b = 1 THEN iv
                              ELSE SubSeq(src, BlockSize * (b - 2) + 1, BlockSize * (b - 1)))]
    IN  [j \in 1..Len(src) |->
            Xor(src[j], ks[((j - 1) \div BlockSize) + 1][((j - 1) % BlockSize) + 1])]

\* h := hmac.New(sha256.New, key); h.Write(data); h.Sum(nil): 32 bytes
hmacSum(key, data) ==
    Only({[j \in 1..Sha256Size |->
                         IF j = 1 THEN h \div 256
                         ELSE IF j = 2 THEN h % 256
                         ELSE (h * j + 13 * j) % 256] : h \in {Fold(data, Fold(key, 7))}})

\* hmac.Equal(a, b)
hmacEqual(a, b) == Len(a) = Len(b) /\ \A j \in 1..Len(a) : a[j] = b[j]

\* ------------------------------------------------------------------- hex

\* the alphabet "0123456789abcdef" of encoding/hex
hexChar(n) == IF n < 10 THEN 48 + n ELSE 87 + n

\* hex.EncodeToString(src)
hexEncode(src) ==
    [j \in 1..(2 * Len(src)) |->
        IF j % 2 = 1 THEN hexChar(src[(j + 1) \div 2] \div 16)
        ELSE hexChar(src[j \div 2] % 16)]

\* fromHexChar of encoding/hex: the digits, a-f and A-F; -1 for any other byte
fromHexChar(c) ==
    IF c >= 48 /\ c <= 57 THEN c - 48
    ELSE IF c >= 97 /\ c <= 102 THEN c - 87
    ELSE IF c >= 65 /\ c <= 70 THEN c - 55
    ELSE -1

hexDecodePairs(s) ==
    [j \in 1..(Len(s) \div 2) |->
        fromHexChar(s[2 * j - 1]) * 16 + fromHexChar(s[2 * j])]

\* hex.DecodeString(s)
hexDecode(s) ==
    IF \E j \in 1..Len(s) : fromHexChar(s[j]) = -1
    THEN [out |-> <<>>, err |-> "encoding/hex: invalid byte"]
    ELSE IF Len(s) % 2 = 1
    THEN [out |-> <<>>, err |-> "encoding/hex: odd length hex string"]
    ELSE [out |-> hexDecodePairs(s), err |-> ""]

\* the pattern without its length, `^[a-f0-9]+$`
hexRegexpAnyLength(name) ==
    /\ Len(name) > 0
    /\ \A j \in 1..Len(name) :
          (name[j] >= 48 /\ name[j] <= 57) \/ (name[j] >= 97 /\ name[j] <= 102)

\* regexp `^[a-f0-9]{64}$`
sha256HexRegexp(name) ==
    /\ Len(name) = SignatureSize
    /\ \A j \in 1..Len(name) :
          (name[j] >= 48 /\ name[j] <= 57) \/ (name[j] >= 97 /\ name[j] <= 102)

\* ------------------------------------------------------------------ gzip

\* the 10 byte member header: magic, deflate, no flags, no mtime,
\* best compression, unknown OS
gzipHeader == <<31, 139, 8, 0, 0, 0, 0, 0, 2, 255>>

\* the run-length code of s[lo..hi]: (count, byte) pairs, one per run of
\* equal bytes (the strings of the model are shorter than 256 bytes)
RECURSIVE runs(_, _, _)
runs(s, lo, hi) ==
    IF lo > hi THEN <<>>
    ELSE IF lo = hi THEN <<1, s[lo]>>
    ELSE Only({IF h[1][Len(h[1])] = h[2][2]
               THEN SubSeq(h[1], 1, Len(h[1]) - 2)
                        \o <<h[1][Len(h[1]) - 1] + h[2][1], h[2][2]>>
                        \o SubSeq(h[2], 3, Len(h[2]))
               ELSE h[1] \o h[2] :
               h \in {<<runs(s, lo, (lo + hi) \div 2),
                        runs(s, ((lo + hi) \div 2) + 1, hi)>>}})

\* the compressed body: the run-length code and a 0 end marker
deflate(s) == runs(s, 1, Len(s)) \o <<0>>

\* the 8 byte trailer: checksum and size of the uncompressed data
gzipTrailer(s) ==
    Only({<<c % 256, c \div 256, 0, 0, Len(s) % 256, Len(s) \div 256, 0, 0>> : c \in {Fold(s, 1)}})

\* w := gzip.NewWriterLevel(buf, gzip.BestCompression); w.Write(data); w.Close()
gzipWrite(data) == gzipHeader \o deflate(data) \o gzipTrailer(data)

\* the bytes that the pairs lo..hi of the body that starts at z[i] stand for
RECURSIVE expand(_, _, _, _)
expand(z, i, lo, hi) ==
    IF lo > hi THEN <<>>
    ELSE IF lo = hi THEN [j \in 1..z[i + 2 * lo] |-> z[i + 2 * lo + 1]]
    ELSE LET mid == (lo + hi) \div 2
         IN  expand(z, i, lo, mid) \o expand(z, i, mid + 1, hi)

\* the body that starts at z[i], decoded up to its end marker
inflate(z, i) ==
    LET ends == {k \in 0..((Len(z) - i) \div 2) : z[i + 2 * k] = 0}
        n    == CHOOSE k \in ends : \A m \in ends : k <= m
    IN  IF i > Len(z) \/ ends = {}
        THEN [out |-> <<>>, next |-> i, err |-> "unexpected EOF"]
        ELSE [out |-> expand(z, i, 0, n - 1), next |-> i + 2 * n + 1, err |-> ""]

\* r, err := gzip.NewReader(bytes.NewReader(z)); ioutil.ReadAll(r)
gunzip(z) ==
    IF Len(z) < Len(gzipHeader) \/ SubSeq(z, 1, 3) # SubSeq(gzipHeader, 1, 3)
    THEN [out |-> <<>>, err |-> "gzip: invalid header"]
    ELSE LET r == inflate(z, Len(gzipHeader) + 1)
         IN  IF r.err # "" THEN [out |-> <<>>, err |-> r.err]
             ELSE IF r.next + 7 > Len(z) THEN [out |-> <<>>, err |-> "unexpected EOF"]
             ELSE IF SubSeq(z, r.next, r.next + 7) # gzipTrailer(r.out)
             THEN [out |-> <<>>, err |-> "gzip: invalid checksum"]
             ELSE IF r.next + 7 < Len(z) THEN [out |-> <<>>, err |-> "gzip: invalid header"]
             ELSE [out |-> r.out, err |-> ""]

\* -------------------------------------------------------- envelope codec

ErrShort == "insufficient data to decrypt"

ErrSignature == "signature does not match data"

\* func Encrypt(data []byte, key []byte) ([]byte, string, error), with iv
\* the bytes io.ReadFull(rand.Reader, iv) delivers (fewer than 16: an error)
Encrypt(data, key, iv) ==
    LET aes256Key  == generate32ByteKey(key)
        buf        == gzipWrite(data)
        ciphertext == iv \o cfbEncrypt(aes256Key, iv, buf)
    IN  IF Len(iv) < BlockSize
        THEN [out |-> <<>>, sig |-> <<>>, err |-> "unexpected EOF"]
        ELSE [out |-> ciphertext, sig |-> hexEncode(hmacSum(key, ciphertext)), err |-> ""]

\* Decrypt line 33: the length check
decTooShort(data) == Len(data) < BlockSize

\* a comparison that accepts every signature
macMatchesAlways(sig_mac, data, key) == TRUE

\* Decrypt lines 42-45: recompute the MAC over data and compare
macMatches(sig_mac, data, key) == hmacEqual(sig_mac, hmacSum(key, data))

\* Decrypt lines 57-60: the CFB transform, in place in data[aes.BlockSize:]
decTransform(data, aes256Key) ==
    SubSeq(data, 1, BlockSize)
        \o cfbDecrypt(aes256Key, SubSeq(data, 1, BlockSize),
                      SubSeq(data, BlockSize + 1, Len(data)))

\* func Decrypt(data []byte, sig string, key []byte) ([]byte, error);
\* buf is the caller's data slice when the call returns
Decrypt(data, sig, key) ==
    IF decTooShort(data) THEN [out |-> <<>>, err |-> ErrShort, buf |-> data]
    ELSE LET d == hexDecode(sig)
         IN  IF d.err # "" THEN [out |-> <<>>, err |-> d.err, buf |-> data]
             ELSE IF ~macMatches(d.out, data, key)
             THEN [out |-> <<>>, err |-> ErrSignature, buf |-> data]
             ELSE LET buf == decTransform(data, generate32ByteKey(key))
                      r   == gunzip(SubSeq(buf, BlockSize + 1, Len(buf)))
                  IN  [out |-> r.out, err |-> r.err, buf |-> buf]

\* ------------------------------------------- the codec, call by call

\* the plaintexts handed to Encrypt: empty, "hi", and binary with a run
Plaintexts == {<<>>, <<104, 105>>, <<0, 0, 0, 255>>}

\* the Secrets: empty and "key"
Secrets == {<<>>, <<107, 101, 121>>}

\* the n-th IV that the random stream seed delivers; stream 0 opens with
\* the all-zero IV, and no stream repeats an IV within a behaviour
ivOf(seed, n) == [j \in 1..BlockSize |-> ((seed + 5 * n) * (17 * j + 3)) % 256]

\* the values rand.Reader delivers as the IV of a single Encrypt
IVs == {ivOf(seed, 0) : seed \in 0..(NumIV - 1)}

\* no Encrypt call yet
EncNone ==
    [called |-> FALSE, data |-> <<>>, key |-> <<>>,
     r |-> [out |-> <<>>, sig |-> <<>>, err |-> ""]]

\* no Decrypt call in progress
DecIdle ==
    [pc |-> "idle", tamper |-> "none", data |-> <<>>, data0 |-> <<>>, sig |-> <<>>,
     key |-> <<>>, sig_mac |-> <<>>, aes256Key |-> <<>>, out |-> <<>>, err |-> "",
     verified |-> FALSE, derived |-> FALSE, transformed |-> FALSE, inflated |-> FALSE]

\* the frame of Decrypt(data, sig, key) on entry
DecEntry(tamper, data, sig, key) ==
    [DecIdle EXCEPT !.pc = "len", !.tamper = tamper, !.data = data, !.data0 = data,
                    !.sig = sig, !.key = key]

\* the filesystem and the walker do not take part in the codec's behaviours
NoFiles ==
    /\ fs = <<>> /\ umask = 0 /\ rand = [seed |-> 0, n |-> 0]
    /\ call = [op |-> "none"] /\ hist = <<>>

InitCodec == enc = EncNone /\ dec = DecIdle /\ NoFiles

\* a caller runs Encrypt(data, key); rand.Reader may also fail (a short read)
CallEncrypt ==
    /\ ~enc.called
    /\ \E data \in Plaintexts, key \in Secrets, iv \in IVs \cup {<<>>} :
          enc' = [called |-> TRUE, data |-> data, key |-> key,
                  r |-> Encrypt(data, key, iv)]
    /\ dec' = DecIdle
    /\ UNCHANGED <<fs, umask, rand, call, hist>>

CanDecrypt == enc.called /\ enc.r.err = "" /\ dec.pc = "idle"

\* a caller runs Decrypt on what Encrypt returned, with the same Secret
CallDecryptIntact ==
    /\ CanDecrypt
    /\ dec' = DecEntry("intact", enc.r.out, enc.r.sig, enc.key)
    /\ UNCHANGED <<enc, fs, umask, rand, call, hist>>

\* ... with one bit of the envelope inverted
CallDecryptEnvelopeBit ==
    /\ CanDecrypt
    /\ \E i \in 1..Len(enc.r.out), k \in 0..7 :
          dec' = DecEntry("envelope", FlipAt(enc.r.out, i, k), enc.r.sig, enc.key)
    /\ UNCHANGED <<enc, fs, umask, rand, call, hist>>

\* ... with one bit of the signature string inverted
CallDecryptSignatureBit ==
    /\ CanDecrypt
    /\ \E i \in 1..Len(enc.r.sig), k \in 0..7 :
          dec' = DecEntry("signature", enc.r.out, FlipAt(enc.r.sig, i, k), enc.key)
    /\ UNCHANGED <<enc, fs, umask, rand, call, hist>>

\* ... with another Secret, with a truncated envelope, with a truncated signature
CallDecryptOther ==
    /\ CanDecrypt
    /\ \/ \E key \in Secrets \ {enc.key} :
             dec' = DecEntry("key", enc.r.out, enc.r.sig, key)
       \/ dec' = DecEntry("short", SubSeq(enc.r.out, 1, BlockSize - 1), enc.r.sig, enc.key)
       \/ dec' = DecEntry("oddsig", enc.r.out, SubSeq(enc.r.sig, 1, Len(enc.r.sig) - 1),
                          enc.key)
    /\ UNCHANGED <<enc, fs, umask, rand, call, hist>>

DecReturn(d, out, err) == [d EXCEPT !.pc = "done", !.out = out, !.err = err]

\* Decrypt lines 33-35
DecLen ==
    /\ dec.pc = "len"
    /\ dec' = IF decTooShort(dec.data) THEN DecReturn(dec, <<>>, ErrShort)
              ELSE [dec EXCEPT !.pc = "hex"]
    /\ UNCHANGED <<enc, fs, umask, rand, call, hist>>

\* Decrypt lines 37-40
DecHex ==
    /\ dec.pc = "hex"
    /\ LET d == hexDecode(dec.sig)
       IN  dec' = IF d.err # "" THEN DecReturn(dec, <<>>, d.err)
                  ELSE [dec EXCEPT !.pc = "mac", !.sig_mac = d.out]
    /\ UNCHANGED <<enc, fs, umask, rand, call, hist>>

\* the comparison without its return: a mismatch falls through to the cipher
decMacStepFallsThrough(d) ==
    [d EXCEPT !.pc = "kdf", !.verified = macMatches(d.sig_mac, d.data, d.key)]

\* Decrypt lines 42-47
decMacStep(d) ==
    IF ~macMatches(d.sig_mac, d.data, d.key) THEN DecReturn(d, <<>>, ErrSignature)
    ELSE [d EXCEPT !.pc = "kdf", !.verified = TRUE]

DecMac ==
    /\ dec.pc = "mac"
    /\ dec' = decMacStep(dec)
    /\ UNCHANGED <<enc, fs, umask, rand, call, hist>>

\* Decrypt lines 49-55
DecKdf ==
    /\ dec.pc = "kdf"
    /\ dec' = [dec EXCEPT !.pc = "cfb", !.derived = TRUE,
                          !.aes256Key = generate32ByteKey(dec.key)]
    /\ UNCHANGED <<enc, fs, umask, rand, call, hist>>

\* Decrypt lines 57-60
DecCfb ==
    /\ dec.pc = "cfb"
    /\ dec' = [dec EXCEPT !.pc = "gzip", !.transformed = TRUE,
                          !.data = decTransform(dec.data, dec.aes256Key)]
    /\ UNCHANGED <<enc, fs, umask, rand, call, hist>>

\* Decrypt lines 62-67
DecGunzip ==
    /\ dec.pc = "gzip"
    /\ LET r == gunzip(SubSeq(dec.data, BlockSize + 1, Len(dec.data)))
       IN  dec' = [DecReturn(dec, r.out, r.err) EXCEPT !.inflated = TRUE]
    /\ UNCHANGED <<enc, fs, umask, rand, call, hist>>

NextCodec ==
    \/ CallEncrypt
    \/ CallDecryptIntact
    \/ CallDecryptEnvelopeBit
    \/ CallDecryptSignatureBit
    \/ CallDecryptOther
    \/ DecLen
    \/ DecHex
    \/ DecMac
    \/ DecKdf
    \/ DecCfb
    \/ DecGunzip

SpecCodec == InitCodec /\ [][NextCodec]_vars

\* the step by step frame returns what the function Decrypt returns
DecStepsAgree ==
    dec.pc = "done" =>
        LET r == Decrypt(dec.data0, dec.sig, dec.key)
        IN  r.err = dec.err /\ r.out = dec.out /\ r.buf = dec.data

\* C1: Envelope round-trip: whenever Encrypt(P, S) returned (envelope, sig)
\* without error, Decrypt(envelope, sig, S) returns exactly P without error,
\* for every Secret and plaintext (the empty ones included) and every IV.
C1_RoundTrip ==
    (dec.pc = "done" /\ dec.tamper = "intact") => (dec.err = "" /\ dec.out = enc.data)

\* a Decrypt of an untouched envelope of a non-empty plaintext has returned
C1_Witness ==
    /\ dec.pc = "done" /\ dec.tamper = "intact"
    /\ enc.data # <<>> /\ dec.out = enc.data
    /\ Len(enc.r.out) > 2 * BlockSize

\* C2: Authenticate-before-decrypt: in every state of a Decrypt call, key
\* derivation, the CFB transform and decompression have happened only after
\* the MAC over the envelope was recomputed and found equal to the signature;
\* and a Decrypt that returns the signature-mismatch error has derived no
\* key, transformed nothing, decompressed nothing and left its input buffer
\* as it was.
C2_AuthBeforeDecrypt ==
    /\ (dec.derived \/ dec.transformed \/ dec.inflated \/ dec.data # dec.data0)
          => dec.verified
    /\ (dec.pc = "done" /\ ~macMatches(dec.sig_mac, dec.data0, dec.key)
           /\ hexDecode(dec.sig).err = "" /\ ~decTooShort(dec.data0))
          => /\ dec.err = ErrSignature
             /\ ~dec.derived /\ ~dec.transformed /\ ~dec.inflated
             /\ dec.data = dec.data0

\* both cases: a Decrypt that was refused at the MAC, or one past the cipher
C2_Witness ==
    /\ dec.pc = "done" /\ dec.err = ErrSignature /\ dec.tamper = "envelope"
    /\ dec.data = dec.data0

C2_WitnessAccepted ==
    dec.pc = "done" /\ dec.verified /\ dec.transformed /\ dec.data # dec.data0

\* C3 as the spec states it: after any single bit of the envelope or of the
\* signature string was inverted, Decrypt fails with the signature-mismatch
\* error.
C3_AnyBitFailsAuthentication ==
    (dec.pc = "done" /\ dec.tamper \in {"envelope", "signature"})
        => dec.err = ErrSignature

\* the byte of the signature string that the inverted bit changed
ChangedSigByte == dec.sig[CHOOSE i \in 1..Len(dec.sig) : dec.sig[i] # enc.r.sig[i]]

OriginalSigByte == enc.r.sig[CHOOSE i \in 1..Len(dec.sig) : dec.sig[i] # enc.r.sig[i]]

IsHexDigit(c) ==
    (c >= 48 /\ c <= 57) \/ (c >= 97 /\ c <= 102) \/ (c >= 65 /\ c <= 70)

\* C3, amended: a single inverted bit of the envelope makes Decrypt fail with
\* the signature-mismatch error.  A single inverted bit of the signature
\* string makes it fail with the hex decoding error when the changed
\* character is no hex digit, and with the signature-mismatch error when it
\* is another hex digit; when the bit only turns a letter a-f into its upper
\* case, Decrypt succeeds and returns the original plaintext.  Decrypt never
\* returns a wrong plaintext.
C3_TamperDetection ==
    /\ (dec.pc = "done" /\ dec.tamper = "envelope") => dec.err = ErrSignature
    /\ (dec.pc = "done" /\ dec.tamper = "signature") =>
          IF OriginalSigByte >= 97 /\ ChangedSigByte = OriginalSigByte - 32
          THEN dec.err = "" /\ dec.out = enc.data
          ELSE IF IsHexDigit(ChangedSigByte)
          THEN dec.err = ErrSignature
          ELSE dec.err = "encoding/hex: invalid byte"
    /\ (dec.pc = "done" /\ dec.tamper \in {"envelope", "signature"} /\ dec.err = "")
          => dec.out = enc.data

\* a Decrypt that accepted a signature string with one bit inverted
C3_Witness ==
    dec.pc = "done" /\ dec.tamper = "signature" /\ dec.sig # enc.r.sig /\ dec.err = ""

\* a Decrypt that refused an envelope with one bit inverted
C3_WitnessEnvelope ==
    dec.pc = "done" /\ dec.tamper = "envelope" /\ dec.data0 # enc.r.out
        /\ dec.err = ErrSignature

\* ------------------------------------------------------------ filesystem
\* A path is a sequence of names, <<>> is the root directory of the tree;
\* a name is a byte string.  fs maps each existing path to its entry.
\* The process owns every entry and is not the superuser, so the owner
\* bits of perm decide access.

\* the permission argument 0400 of the os.OpenFile that creates an artifact
ArtifactPerm == 256

\* what time.Now() returns while a call runs
Now == [sec |-> 99, nsec |-> 1]

File(perm, data, mtime) ==
    [kind |-> "file", perm |-> perm, data |-> data, mtime |-> mtime,
     target |-> <<>>, locked |-> FALSE]

Directory(perm) ==
    [kind |-> "dir", perm |-> perm, data |-> <<>>, mtime |-> [sec |-> 1, nsec |-> 0],
     target |-> <<>>, locked |-> FALSE]

Symlink(target) ==
    [kind |-> "symlink", perm |-> 511, data |-> <<>>, mtime |-> [sec |-> 1, nsec |-> 0],
     target |-> target, locked |-> FALSE]

NamedPipe(perm) ==
    [kind |-> "pipe", perm |-> perm, data |-> <<>>, mtime |-> [sec |-> 1, nsec |-> 0],
     target |-> <<>>, locked |-> FALSE]

\* filepath.Dir(path) and filepath.Base(path)
Dir(path) == SubSeq(path, 1, Len(path) - 1)

Base(path) == path[Len(path)]

\* filepath.Join(dir, name) for a name without separators; an empty name
\* joins to the directory itself
Join(dir, name) == IF name = <<>> THEN dir ELSE Append(dir, name)

CanRead(e) == (e.perm \div 256) % 2 = 1

CanWrite(e) == (e.perm \div 128) % 2 = 1

CanSearch(e) == (e.perm \div 64) % 2 = 1

\* path resolution reaches p: every directory above it exists and can be searched
Reachable(f, p) ==
    \A n \in 0..(Len(p) - 1) :
        LET d == SubSeq(p, 1, n)
        IN  d \in DOMAIN f /\ f[d].kind = "dir" /\ CanSearch(f[d])

\* os.Lstat(p): the entry itself
Lstat(f, p) ==
    IF ~Reachable(f, p) THEN [err |-> "permission denied", path |-> p]
    ELSE IF p \notin DOMAIN f THEN [err |-> "no such file or directory", path |-> p]
    ELSE [err |-> "", path |-> p]

\* os.Stat(p): the entry, or the entry a symlink points to; path is where
\* the entry is
Stat(f, p) ==
    LET l == Lstat(f, p)
    IN  IF l.err # "" THEN l
        ELSE IF f[p].kind = "symlink" THEN Lstat(f, f[p].target)
        ELSE l

\* ioutil.ReadFile(p) of a path whose os.Stat succeeded at st.path
ReadFile(f, st) ==
    IF ~CanRead(f[st.path]) THEN [err |-> "permission denied", data |-> <<>>]
    ELSE [err |-> "", data |-> f[st.path].data]

\* the same without O_EXCL: an existing file is opened and written over
createErrNoExcl(f, p) ==
    IF ~Reachable(f, p) THEN "permission denied"
    ELSE IF p = <<>> \/ ~CanWrite(f[Dir(p)]) THEN "permission denied"
    ELSE ""

\* the error of os.OpenFile(p, O_WRONLY|O_CREATE|O_EXCL|O_SYNC, perm), "" if none
CreateExclErr(f, p) ==
    IF ~Reachable(f, p) THEN "permission denied"
    ELSE IF p \in DOMAIN f THEN "file exists"
    ELSE IF p = <<>> \/ ~CanWrite(f[Dir(p)]) THEN "permission denied"
    ELSE ""

\* the mode of a file created with permission perm: the bits of the umask
\* are cleared
Masked(perm, mask) == perm - AndBits(perm, mask, 9)

\* the filesystem after the file p was created with perm, written with data
\* and closed, its times set to mtime
WithFile(f, mask, p, perm, data, mtime) ==
    (p :> File(Masked(perm, mask), data, mtime)) @@ f

\* the error of os.Remove(p) for a p that is no directory, "" if none
RemoveErr(f, p) ==
    IF ~Reachable(f, p) THEN "permission denied"
    ELSE IF p \notin DOMAIN f THEN "no such file or directory"
    ELSE IF ~CanWrite(f[Dir(p)]) THEN "permission denied"
    ELSE IF f[p].locked THEN "operation not permitted"
    ELSE ""

Without(f, p) == [q \in DOMAIN f \ {p} |-> f[q]]

\* ------------------------------------------------------------------- tar

\* the seconds a tar header keeps of a modification time
tarSeconds(mtime) == [sec |-> mtime.sec, nsec |-> 0]

\* tw.WriteHeader(hdr); tw.Write(data); tw.Close(): an entry marker, the
\* name with its length, mode, size and seconds, the contents, and the
\* end-of-archive marker
tarWrite(hdr, data) ==
    <<1, Len(hdr.Name)>> \o hdr.Name
        \o <<hdr.Mode \div 256, hdr.Mode % 256, hdr.Size, hdr.ModTime.sec>>
        \o data \o <<0, 0>>

\* tw.Close() alone: an archive without an entry
tarEmpty == <<0, 0>>

NoHeader == [Name |-> <<>>, Mode |-> 0, Size |-> 0, ModTime |-> [sec |-> 0, nsec |-> 0]]

\* hdr, err := tr.Next(), and body: what io.Copy can read of the entry
tarNext(b) ==
    IF b = <<>> \/ b[1] = 0
    THEN [err |-> "EOF", nil |-> TRUE, hdr |-> NoHeader, body |-> <<>>]
    ELSE IF b[1] # 1 \/ Len(b) < 2 \/ Len(b) < b[2] + 6
    THEN [err |-> "archive/tar: invalid tar header", nil |-> TRUE, hdr |-> NoHeader,
          body |-> <<>>]
    ELSE LET n == b[2]
         IN  [err |-> "", nil |-> FALSE,
              hdr |-> [Name |-> SubSeq(b, 3, 2 + n),
                       Mode |-> b[3 + n] * 256 + b[4 + n],
                       Size |-> b[5 + n],
                       ModTime |-> [sec |-> b[6 + n], nsec |-> 0]],
              body |-> SubSeq(b, 7 + n, Min(Len(b), 6 + n + b[5 + n]))]

\* ------------------------------------------------------------ file codec

ErrFileType == "invalid file type"

ErrFileName == "invalid file name, expected SHA-256 hash"

\* a call's result: the filesystem it leaves, the path and error it
\* returns, and whether it ended in a run-time panic instead of returning
FileResult(f, path, err) == [fs |-> f, path |-> path, err |-> err, panic |-> FALSE]

\* func EncryptFile(path string, key []byte) (string, error), with the IV
\* that Encrypt draws
EncryptFile(f, mask, path, key, iv) ==
    LET st == Stat(f, path)
    IN  IF st.err # "" THEN FileResult(f, <<>>, st.err)
        ELSE IF f[st.path].kind # "file" THEN FileResult(f, <<>>, ErrFileType)
        ELSE LET rd == ReadFile(f, st)
             IN  IF rd.err # "" THEN FileResult(f, <<>>, rd.err)
                 ELSE LET hdr == [Name |-> Base(path), Mode |-> f[st.path].perm,
                                  Size |-> Len(f[st.path].data),
                                  ModTime |-> tarSeconds(f[st.path].mtime)]
                          e   == Encrypt(tarWrite(hdr, rd.data), key, iv)
                          new_file_path == Join(Dir(path), e.sig)
                      IN  IF e.err # "" THEN FileResult(f, <<>>, e.err)
                          ELSE IF CreateExclErr(f, new_file_path) # ""
                          THEN FileResult(f, <<>>, CreateExclErr(f, new_file_path))
                          ELSE FileResult(
                                   WithFile(f, mask, new_file_path, ArtifactPerm, e.out, Now),
                                   new_file_path, "")

\* DecryptFile lines 108-135: restore the entry of the decrypted archive
restoreEntry(f, mask, path, dec_data) ==
    LET t == tarNext(dec_data)
        orig_file_path == Join(Dir(path), t.hdr.Name)
    IN  IF t.err # "" /\ t.err # "EOF" THEN FileResult(f, <<>>, t.err)
        ELSE IF t.nil
        THEN [fs |-> f, path |-> <<>>, err |-> "nil pointer dereference", panic |-> TRUE]
        ELSE IF CreateExclErr(f, orig_file_path) # ""
        THEN FileResult(f, <<>>, CreateExclErr(f, orig_file_path))
        ELSE IF Len(t.body) # t.hdr.Size
        THEN FileResult(WithFile(f, mask, orig_file_path, t.hdr.Mode, t.body, Now),
                        <<>>, "unexpected EOF")
        ELSE FileResult(WithFile(f, mask, orig_file_path, t.hdr.Mode, t.body,
                                 t.hdr.ModTime),
                        orig_file_path, "")

\* func DecryptFile(path string, key []byte) (string, error)
DecryptFile(f, mask, path, key) ==
    IF path = <<>> \/ ~sha256HexRegexp(Base(path)) THEN FileResult(f, <<>>, ErrFileName)
    ELSE LET st == Stat(f, path)
         IN  IF st.err # "" THEN FileResult(f, <<>>, st.err)
             ELSE IF f[st.path].kind # "file" THEN FileResult(f, <<>>, ErrFileType)
             ELSE LET rd == ReadFile(f, st)
                      d  == Decrypt(rd.data, Base(path), key)
                  IN  IF rd.err # "" THEN FileResult(f, <<>>, rd.err)
                      ELSE IF d.err # "" THEN FileResult(f, <<>>, d.err)
                      ELSE restoreEntry(f, mask, path, d.out)

\* -------------------------------------------- the file codec, call by call

\* base names: "f" and the two bytes of a non-ASCII letter in UTF-8
FileNames == {<<102>>, <<195, 169>>}

\* permission bits 0644, 0666 and 0400
FilePerms == {420, 438, 256}

\* contents: empty and "hi"
FileData == {<<>>, <<104, 105>>}

\* modification times: on a whole second, and with a fraction of one
FileTimes == {[sec |-> 5, nsec |-> 0], [sec |-> 5, nsec |-> 500000000]}

\* the umask of the process: none, and the usual 022
Umasks == {0, 18}

\* the result of the call that last returned
Returned(r) == [kind |-> IF r.panic THEN "panic" ELSE IF r.err # "" THEN "error" ELSE "nil",
                err |-> r.err, path |-> r.path]

NoCall ==
    [op |-> "none", root |-> <<>>, key |-> <<>>, pc |-> "idle", todo |-> <<>>,
     cur |-> <<>>, ret |-> [kind |-> "none", err |-> "", path |-> <<>>],
     visited |-> <<>>]

\* a directory that holds one file
OneFile(name, perm, data, mtime) ==
    (<<>> :> Directory(493)) @@ (<<name>> :> File(perm, data, mtime))

\* the path at which EncryptFile(path, "key") puts its artifact when
\* crypto/rand delivers iv
ArtifactPath(f, path, iv) == Only({r.path : r \in {EncryptFile(f, 0, path, <<107, 101, 121>>, iv)}})

\* a file of another origin ("o") that already has that name
Occupant == File(420, <<111>>, [sec |-> 3, nsec |-> 0])

InitFile ==
    /\ enc = EncNone /\ dec = DecIdle
    /\ umask \in Umasks
    /\ \E seed \in 0..(NumIV - 1) : rand = [seed |-> seed, n |-> 0]
    /\ \E name \in FileNames, perm \in FilePerms, data \in FileData, mtime \in FileTimes,
          occupied \in BOOLEAN :
          /\ fs = IF occupied
                  THEN (ArtifactPath(OneFile(name, perm, data, mtime), <<name>>,
                                     ivOf(rand.seed, 0)) :> Occupant)
                           @@ OneFile(name, perm, data, mtime)
                  ELSE OneFile(name, perm, data, mtime)
          /\ hist = [orig |-> fs, start |-> fs, src |-> <<name>>, stage |-> "start",
                     key |-> <<>>, artifact |-> <<>>, fault |-> "none"]
    /\ call = NoCall

\* a caller runs EncryptFile(p, key) on the file
FileEncrypt ==
    /\ hist.stage = "start"
    /\ \E key \in Secrets :
          LET r == EncryptFile(fs, umask, hist.src, key, ivOf(rand.seed, rand.n))
          IN  /\ fs' = r.fs
              /\ call' = [NoCall EXCEPT !.op = "EncryptFile", !.root = hist.src,
                                        !.key = key, !.pc = "returned",
                                        !.ret = Returned(r)]
              /\ hist' = [hist EXCEPT !.stage = IF r.err = "" THEN "encrypted" ELSE "failed",
                                      !.key = key, !.artifact = r.path, !.start = fs]
    /\ rand' = [rand EXCEPT !.n = rand.n + 1]
    /\ UNCHANGED <<enc, dec, umask>>

\* the caller removes the source, as TestEncDecFile and the walker do
FileRemoveSource ==
    /\ hist.stage = "encrypted"
    /\ RemoveErr(fs, hist.src) = ""
    /\ fs' = Without(fs, hist.src)
    /\ hist' = [hist EXCEPT !.stage = "removed"]
    /\ UNCHANGED <<enc, dec, umask, rand, call>>

\* the artifact's contents change behind the program's back: a bit of the
\* IV or of the last byte flips, or the file is cut to 8 bytes
FileTamper ==
    /\ hist.stage \in {"encrypted", "removed"} /\ hist.fault = "none"
    /\ \E how \in {"first", "last", "cut"} :
          LET data == fs[hist.artifact].data
          IN  /\ fs' = [fs EXCEPT ![hist.artifact].data =
                            IF how = "first" THEN FlipAt(data, 1, 0)
                            ELSE IF how = "last" THEN FlipAt(data, Len(data), 7)
                            ELSE SubSeq(data, 1, 8)]
              /\ hist' = [hist EXCEPT !.fault = IF how = "cut" THEN "truncated"
                                                ELSE "tampered"]
    /\ UNCHANGED <<enc, dec, umask, rand, call>>

\* the artifact is renamed to another name of 64 hex characters
FileRename ==
    /\ hist.stage \in {"encrypted", "removed"} /\ hist.fault = "none"
    /\ LET to == Join(Dir(hist.artifact), [j \in 1..SignatureSize |-> 97])
       IN  /\ to \notin DOMAIN fs
           /\ fs' = (to :> fs[hist.artifact]) @@ Without(fs, hist.artifact)
           /\ hist' = [hist EXCEPT !.fault = "renamed", !.artifact = to]
    /\ UNCHANGED <<enc, dec, umask, rand, call>>

\* names that are no 64 lowercase hex characters: the source's, 64 upper
\* case hex characters, 63 hex characters
BadPaths == {hist.src, << [j \in 1..SignatureSize |-> 65] >>,
             << [j \in 1..(SignatureSize - 1) |-> 97] >>}

\* a caller runs DecryptFile on a path whose base name is no signature
FileDecryptBadName ==
    /\ hist.stage \in {"start", "encrypted", "removed"} /\ hist.fault = "none"
    /\ \E key \in Secrets, path \in BadPaths :
          LET r == DecryptFile(fs, umask, path, key)
          IN  /\ fs' = r.fs
              /\ call' = [NoCall EXCEPT !.op = "DecryptFile", !.root = path,
                                        !.key = key, !.pc = "returned",
                                        !.ret = Returned(r)]
              /\ hist' = [hist EXCEPT !.stage = "refused", !.fault = "badname",
                                      !.start = fs]
    /\ UNCHANGED <<enc, dec, umask, rand>>

\* a caller runs DecryptFile(artifact, key), before or after the removal
FileDecrypt ==
    /\ hist.stage \in {"encrypted", "removed"}
    /\ \E key \in Secrets :
          LET r == DecryptFile(fs, umask, hist.artifact, key)
          IN  /\ fs' = r.fs
              /\ call' = [NoCall EXCEPT !.op = "DecryptFile", !.root = hist.artifact,
                                        !.key = key, !.pc = "returned",
                                        !.ret = Returned(r)]
              /\ hist' = [hist EXCEPT !.stage = IF hist.stage = "removed"
                                                     /\ hist.fault = "none"
                                                THEN "restored" ELSE "refused",
                                      !.start = fs]
    /\ UNCHANGED <<enc, dec, umask, rand>>

NextFile ==
    \/ FileEncrypt
    \/ FileRemoveSource
    \/ FileTamper
    \/ FileRename
    \/ FileDecryptBadName
    \/ FileDecrypt

SpecFile == InitFile /\ [][NextFile]_vars

\* C4: File round-trip: after EncryptFile(p, S), the removal of p and
\* DecryptFile(artifact, S), DecryptFile has returned p without error and p
\* is a regular file with the name, permission bits, contents and
\* modification time of the original (the time to the whole second, the
\* granularity of the archive header).
C4_FileRoundTrip ==
    (hist.stage = "restored" /\ call.key = hist.key) =>
        /\ call.ret.kind = "nil" /\ call.ret.path = hist.src
        /\ hist.src \in DOMAIN fs
        /\ fs[hist.src].kind = "file"
        /\ fs[hist.src].perm = hist.orig[hist.src].perm
        /\ fs[hist.src].data = hist.orig[hist.src].data
        /\ fs[hist.src].mtime.sec = hist.orig[hist.src].mtime.sec

\* what the code does restore: the path, the name, the contents, the
\* permission bits that the umask lets through and the whole seconds
FileRoundTripUpToUmask ==
    (hist.stage = "restored" /\ call.key = hist.key) =>
        /\ call.ret.kind = "nil" /\ call.ret.path = hist.src
        /\ hist.src \in DOMAIN fs
        /\ fs[hist.src].kind = "file"
        /\ fs[hist.src].perm = Masked(hist.orig[hist.src].perm, umask)
        /\ fs[hist.src].data = hist.orig[hist.src].data
        /\ fs[hist.src].mtime = tarSeconds(hist.orig[hist.src].mtime)

\* ------------------------------------------------- the file codec: frames

\* the EncryptFile call returned and nothing was done since
EncryptFileReturned ==
    /\ call.op = "EncryptFile" /\ call.pc = "returned"
    /\ hist.stage \in {"encrypted", "failed"} /\ hist.fault = "none"

\* the path of the artifact that the EncryptFile call of the behaviour makes
\* under the Secret "key" was taken when the call began
Collides ==
    EncryptFileReturned /\ call.key = <<107, 101, 121>>
        /\ \E p \in DOMAIN hist.start : hist.start[p] = Occupant

\* C11: EncryptFile frame: a successful EncryptFile(p, S) adds exactly one
\* file, in the directory of p, named by the hex HMAC under S of its
\* contents, with permission 0400, and leaves p and every other entry as it
\* was; when a file already is at the artifact path EncryptFile fails and
\* the filesystem is as before.
C11_EncryptFileFrame ==
    EncryptFileReturned =>
        /\ call.ret.kind = "nil" =>
              /\ call.ret.path \notin DOMAIN hist.start
              /\ DOMAIN fs = DOMAIN hist.start \cup {call.ret.path}
              /\ \A p \in DOMAIN hist.start : fs[p] = hist.start[p]
              /\ Dir(call.ret.path) = Dir(call.root)
              /\ fs[call.ret.path].kind = "file"
              /\ fs[call.ret.path].perm = ArtifactPerm
              /\ Base(call.ret.path)
                     = hexEncode(hmacSum(call.key, fs[call.ret.path].data))
        /\ call.ret.kind # "nil" => fs = hist.start
        /\ Collides => call.ret.kind = "error" /\ call.ret.err = "file exists"

\* an EncryptFile call succeeded
C11_Witness == EncryptFileReturned /\ call.ret.kind = "nil" /\ call.ret.path \in DOMAIN fs

\* an EncryptFile call found its artifact path taken
C11_WitnessCollision == Collides /\ call.ret.err = "file exists"

DecryptFileReturned == call.op = "DecryptFile" /\ call.pc = "returned"

\* the DecryptFile call returned err and left the filesystem as it was
Rejected(err) == call.ret.kind = "error" /\ call.ret.err = err /\ fs = hist.start

\* C12: DecryptFile rejects without partial restoration: for a base name
\* that is no 64 lowercase hex characters it returns the file name error,
\* whether or not the path exists; for an artifact that was renamed, whose
\* contents were altered or that is opened with another Secret it returns
\* the error of Decrypt; in each case no entry was created, changed or
\* deleted.
C12_DecryptFileRejects ==
    DecryptFileReturned =>
        /\ hist.fault = "badname" => Rejected(ErrFileName)
        /\ hist.fault \in {"tampered", "renamed"} => Rejected(ErrSignature)
        /\ hist.fault = "truncated" => Rejected(ErrShort)
        /\ (hist.fault = "none" /\ call.key # hist.key) => Rejected(ErrSignature)

\* DecryptFile refused an altered artifact
C12_Witness ==
    DecryptFileReturned /\ hist.fault = "tampered" /\ call.key = hist.key
        /\ Rejected(ErrSignature)

\* DecryptFile refused a name without looking for the file
C12_WitnessBadName ==
    DecryptFileReturned /\ hist.fault = "badname" /\ call.root \notin DOMAIN hist.start
        /\ Rejected(ErrFileName)

\* DecryptFile refused a renamed artifact, and one opened with another Secret
C12_WitnessRenamed ==
    DecryptFileReturned /\ hist.fault = "renamed" /\ call.key = hist.key
        /\ Rejected(ErrSignature)

\* ------------------------------------------------------------ the trees

\* the Secret of the trees' owner: "key"
OwnerKey == <<107, 101, 121>>

\* an IV that no random stream of a behaviour delivers
EarlierIV == ivOf(4, 0)

WholeSecond == [sec |-> 5, nsec |-> 0]

\* a name of 64 times the byte c
Hex64(c) == [j \in 1..SignatureSize |-> c]

\* the tree every behaviour starts from: /a (0644, "hi"), /d/, /d/b (0666, empty)
BaseTree ==
    (<<>> :> Directory(493))
        @@ (<< <<97>> >> :> File(420, <<104, 105>>, WholeSecond))
        @@ (<< <<100>> >> :> Directory(493))
        @@ (<< <<100>>, <<98>> >> :> File(438, <<>>, [sec |-> 7, nsec |-> 500000000]))

\* the artifact that EncryptFile made earlier of a file name in directory dir
ArtifactOf(dir, name, data) ==
    Only({[path |-> r.path, entry |-> r.fs[r.path]] :
          r \in {EncryptFile(BaseTree @@ (Append(dir, name) :> File(420, data, WholeSecond)),
                             0, Append(dir, name), OwnerKey, EarlierIV)}})

\* a file that Encrypt made earlier of an archive without an entry
EmptyArchiveArtifact ==
    Only({[path |-> <<e.sig>>, entry |-> File(ArtifactPerm, e.out, WholeSecond)] :
          e \in {Encrypt(tarEmpty, OwnerKey, EarlierIV)}})

ExtraNames ==
    {"unreadable", "locked", "noread", "nosearch", "symlink", "pipe", "hexpipe",
     "hexfile", "artifact", "hexlink", "tampered", "empty", "clash"}

\* the entries that an optional part adds to the base tree
ExtraEntries(x) ==
    CASE x = "unreadable" -> << <<117>> >> :> File(128, <<104, 105>>, WholeSecond)
      [] x = "locked" ->
            << <<98>> >> :> [File(420, <<104, 105>>, WholeSecond) EXCEPT !.locked = TRUE]
      [] x = "noread" ->
            (<< <<120>> >> :> Directory(192))
                @@ (<< <<120>>, <<102>> >> :> File(420, <<104, 105>>, WholeSecond))
      [] x = "nosearch" ->
            (<< <<110>> >> :> Directory(384))
                @@ (<< <<110>>, <<102>> >> :> File(420, <<104, 105>>, WholeSecond))
      [] x = "symlink" -> << <<115>> >> :> Symlink(<< <<97>> >>)
      [] x = "pipe" -> << <<112>> >> :> NamedPipe(420)
      [] x = "hexpipe" -> << Hex64(97) >> :> NamedPipe(420)
      [] x = "hexfile" -> << Hex64(98) >> :> File(420, <<104, 105>>, WholeSecond)
      [] x = "artifact" ->
            Only({a.path :> a.entry : a \in {ArtifactOf(<<>>, <<109>>, <<104, 105>>)}})
      [] x = "hexlink" ->
            Only({(a.path :> a.entry) @@ (<<Base(a.path)>> :> Symlink(a.path)) :
                  a \in {ArtifactOf(<< <<100>> >>, <<107>>, <<1>>)}})
      [] x = "tampered" ->
            Only({a.path :> [a.entry EXCEPT
                                !.data = FlipAt(a.entry.data, Len(a.entry.data), 0)] :
                  a \in {ArtifactOf(<<>>, <<116>>, <<2>>)}})
      [] x = "empty" -> Only({a.path :> a.entry : a \in {EmptyArchiveArtifact}})
      [] x = "clash" ->
            Only({a.path :> a.entry : a \in {ArtifactOf(<<>>, <<97>>, <<3>>)}})

RECURSIVE WithExtras(_, _)
WithExtras(t, xs) ==
    IF xs = {} THEN t
    ELSE LET x == CHOOSE y \in xs : TRUE
         IN  WithExtras(t @@ ExtraEntries(x), xs \ {x})

\* the roots handed to a walk: the tree, and a path that does not exist
Roots == {<<>>, << <<122>>, <<122>> >>}

\* ------------------------------------------------------- directory walker

\* sort.Strings order of two names: bytewise, a prefix first
NameLess(a, b) ==
    LET n == Min(Len(a), Len(b))
        d == {i \in 1..n : a[i] # b[i]}
    IN  IF d = {} THEN Len(a) < Len(b)
        ELSE LET i == CHOOSE k \in d : \A j \in d : k <= j
             IN  a[i] < b[i]

RECURSIVE SortNames(_)
SortNames(S) ==
    IF S = {} THEN <<>>
    ELSE LET m == CHOOSE x \in S : \A y \in S \ {x} : NameLess(x, y)
         IN  <<m>> \o SortNames(S \ {m})

\* readDirNames(dir) of filepath.Walk: the names in dir, sorted
readDirNames(f, dir) ==
    SortNames({Base(q) : q \in {r \in DOMAIN f : Len(r) = Len(dir) + 1 /\ Dir(r) = dir}})

\* the paths of the entries of dir, in the order the walk visits them
ChildPaths(f, dir) ==
    LET names == readDirNames(f, dir)
    IN  [i \in 1..Len(names) |-> Append(dir, names[i])]

\* EncryptDirFiles lines 156-158: info.Mode()&os.ModeType != 0
encSkips(e) == e.kind # "file"

\* a callback that hands every name to DecryptFile
decSkipsNothing(name) == FALSE

\* DecryptDirFiles lines 154-157: the name is no SHA-256 hex string
decSkips(name) == ~sha256HexRegexp(name)

Visit(path, act, out, err) == [path |-> path, act |-> act, out |-> out, err |-> err]

InitWalk ==
    /\ enc = EncNone /\ dec = DecIdle
    /\ umask \in Umasks
    /\ \E seed \in 0..(NumIV - 1) : rand = [seed |-> seed, n |-> 0]
    /\ \E xs \in {s \in SUBSET ExtraNames : Cardinality(s) <= MaxExtras} :
          /\ fs = WithExtras(BaseTree, xs)
          /\ hist = [orig |-> fs, start |-> fs, stage |-> "fresh",
                     encRet |-> NoCall.ret]
    /\ call = NoCall

\* filepath.Walk(dir, fn), first lines: os.Lstat(root); when it fails the
\* callback gets a nil info, and info.Mode() or info.IsDir() panics
walkStart(f, op, root, key) ==
    IF Lstat(f, root).err # ""
    THEN [NoCall EXCEPT !.op = op, !.root = root, !.key = key, !.pc = "returned",
                        !.ret = [kind |-> "panic", err |-> "nil pointer dereference",
                                 path |-> root]]
    ELSE [NoCall EXCEPT !.op = op, !.root = root, !.key = key, !.pc = "walk",
                        !.todo = <<root>>]

\* a caller runs EncryptDirFiles(root, OwnerKey) on the fresh tree
CallEncryptDirFiles ==
    /\ hist.stage = "fresh"
    /\ \E root \in Roots : call' = walkStart(fs, "EncryptDirFiles", root, OwnerKey)
    /\ hist' = [hist EXCEPT !.stage = "encrypting", !.start = fs]
    /\ UNCHANGED <<enc, dec, fs, umask, rand>>

\* a caller runs DecryptDirFiles(root, key) on the fresh tree or after the
\* EncryptDirFiles call returned
CallDecryptDirFiles ==
    /\ hist.stage \in {"fresh", "encrypted"}
    /\ \E root \in Roots, key \in Secrets :
          call' = walkStart(fs, "DecryptDirFiles", root, key)
    /\ hist' = [hist EXCEPT !.stage = "decrypting", !.start = fs,
                            !.encRet = IF hist.stage = "encrypted" THEN call.ret
                                       ELSE NoCall.ret]
    /\ UNCHANGED <<enc, dec, fs, umask, rand>>

Walking == call.pc = "walk" /\ call.todo # <<>>

\* the walk ends and the call returns (or panics); visit is the callback's
\* last invocation
Returns(kind, err, path, log) ==
    /\ call' = [call EXCEPT !.pc = "returned", !.visited = log,
                            !.ret = [kind |-> kind, err |-> err, path |-> path]]
    /\ hist' = [hist EXCEPT !.stage = IF call.op = "EncryptDirFiles" THEN "encrypted"
                                      ELSE "decrypted"]

\* walk: lstat of the next name fails; the callback gets a nil info and panics
VisitPanic ==
    /\ Walking
    /\ Lstat(fs, Head(call.todo)).err # ""
    /\ Returns("panic", "nil pointer dereference", Head(call.todo),
               Append(call.visited, Visit(Head(call.todo), "panic", <<>>,
                                          Lstat(fs, Head(call.todo)).err)))
    /\ UNCHANGED <<enc, dec, fs, umask, rand>>

\* walk: a directory.  Both callbacks return nil for it, also when they are
\* handed the error of readDirNames, and then the walk goes on past it
VisitDir ==
    /\ Walking
    /\ LET p == Head(call.todo)
       IN  /\ Lstat(fs, p).err = ""
           /\ fs[p].kind = "dir"
           /\ call' = IF CanRead(fs[p])
                      THEN [call EXCEPT !.todo = ChildPaths(fs, p) \o Tail(call.todo),
                                        !.visited = Append(@, Visit(p, "dir", <<>>, ""))]
                      ELSE [call EXCEPT !.todo = Tail(call.todo),
                                        !.visited = Append(@, Visit(p, "direrr", <<>>,
                                                                    "permission denied"))]
    /\ UNCHANGED <<enc, dec, fs, umask, rand, hist>>

Skips(e, name) ==
    IF call.op = "EncryptDirFiles" THEN encSkips(e) ELSE decSkips(name)

\* the next entry is no directory and the callback gets its info
VisitsEntry(p) == Walking /\ p = Head(call.todo) /\ Lstat(fs, p).err = "" /\ fs[p].kind # "dir"

\* the callback returns nil without doing anything
VisitSkip ==
    /\ \E p \in DOMAIN fs :
          /\ VisitsEntry(p)
          /\ Skips(fs[p], Base(p))
          /\ call' = [call EXCEPT !.todo = Tail(call.todo),
                                  !.visited = Append(@, Visit(p, "skip", <<>>, ""))]
    /\ UNCHANGED <<enc, dec, fs, umask, rand, hist>>

\* a callback that goes on to the os.Remove of the entry whether or not
\* EncryptFile or DecryptFile returned an error
afterCodecRemovesAnyway(p, r) ==
    /\ fs' = r.fs
    /\ IF r.panic
       THEN Returns("panic", r.err, p, Append(call.visited, Visit(p, "panic", <<>>, r.err)))
       ELSE /\ call' = [call EXCEPT !.pc = "remove", !.cur = p, !.todo = Tail(call.todo),
                                    !.visited = Append(@, Visit(p, "made", r.path, ""))]
            /\ UNCHANGED hist

\* a callback that drops the error of EncryptFile or DecryptFile and
\* returns nil: the walk goes on to the next entry
afterCodecGoesOn(p, r) ==
    /\ fs' = r.fs
    /\ IF r.panic
       THEN Returns("panic", r.err, p, Append(call.visited, Visit(p, "panic", <<>>, r.err)))
       ELSE IF r.err # ""
       THEN /\ call' = [call EXCEPT !.todo = Tail(call.todo),
                                    !.visited = Append(@, Visit(p, "fail", <<>>, r.err))]
            /\ UNCHANGED hist
       ELSE /\ call' = [call EXCEPT !.pc = "remove", !.cur = p, !.todo = Tail(call.todo),
                                    !.visited = Append(@, Visit(p, "made", r.path, ""))]
            /\ UNCHANGED hist

\* the callback's call of EncryptFile or DecryptFile returned r for entry p:
\* an error ends the walk, success leads to the os.Remove of p
afterCodec(p, r) ==
    /\ fs' = r.fs
    /\ IF r.panic
       THEN Returns("panic", r.err, p, Append(call.visited, Visit(p, "panic", <<>>, r.err)))
       ELSE IF r.err # ""
       THEN Returns("error", r.err, p, Append(call.visited, Visit(p, "fail", <<>>, r.err)))
       ELSE /\ call' = [call EXCEPT !.pc = "remove", !.cur = p, !.todo = Tail(call.todo),
                                    !.visited = Append(@, Visit(p, "made", r.path, ""))]
            /\ UNCHANGED hist

\* EncryptFile gets as far as Encrypt, which draws an IV
DrawsIV(f, p) ==
    LET st == Stat(f, p)
    IN  st.err = "" /\ f[st.path].kind = "file" /\ ReadFile(f, st).err = ""

\* the callback of EncryptDirFiles, lines 160-162
VisitEncrypt ==
    /\ call.op = "EncryptDirFiles"
    /\ \E p \in DOMAIN fs :
          /\ VisitsEntry(p)
          /\ ~Skips(fs[p], Base(p))
          /\ afterCodec(p, EncryptFile(fs, umask, p, call.key, ivOf(rand.seed, rand.n)))
          /\ rand' = [rand EXCEPT !.n = IF DrawsIV(fs, p) THEN rand.n + 1 ELSE rand.n]
    /\ UNCHANGED <<enc, dec, umask>>

\* the callback of DecryptDirFiles, lines 159-161
VisitDecrypt ==
    /\ call.op = "DecryptDirFiles"
    /\ \E p \in DOMAIN fs :
          /\ VisitsEntry(p)
          /\ ~Skips(fs[p], Base(p))
          /\ afterCodec(p, DecryptFile(fs, umask, p, call.key))
    /\ UNCHANGED <<enc, dec, umask, rand>>

LastVisit == call.visited[Len(call.visited)]

\* the callbacks' os.Remove(path), enc.go lines 164-166 and part_000 163-165
RemoveSource ==
    /\ call.pc = "remove"
    /\ LET err == RemoveErr(fs, call.cur)
       IN  IF err # ""
           THEN /\ Returns("error", err, call.cur,
                           [call.visited EXCEPT ![Len(call.visited)] =
                               [LastVisit EXCEPT !.act = "kept", !.err = err]])
                /\ UNCHANGED fs
           ELSE /\ fs' = Without(fs, call.cur)
                /\ call' = [call EXCEPT !.pc = "walk",
                                        !.visited[Len(call.visited)].act = "converted"]
                /\ UNCHANGED hist
    /\ UNCHANGED <<enc, dec, umask, rand>>

\* every entry was visited: filepath.Walk returns nil
WalkReturn ==
    /\ call.pc = "walk" /\ call.todo = <<>>
    /\ Returns("nil", "", call.root, call.visited)
    /\ UNCHANGED <<enc, dec, fs, umask, rand>>

NextWalk ==
    \/ CallEncryptDirFiles
    \/ CallDecryptDirFiles
    \/ VisitPanic
    \/ VisitDir
    \/ VisitSkip
    \/ VisitEncrypt
    \/ VisitDecrypt
    \/ RemoveSource
    \/ WalkReturn

SpecWalk == InitWalk /\ [][NextWalk]_vars

\* ------------------------------------------------- the walks: properties

FilesOf(f) == {p \in DOMAIN f : f[p].kind = "file"}

\* p is root or lies under it
Under(root, p) == Len(p) >= Len(root) /\ SubSeq(p, 1, Len(root)) = root

\* the callback invocations of the call so far that were for path p
VisitsOf(p) == {i \in 1..Len(call.visited) : call.visited[i].path = p}

WasConverted(p) == \E i \in VisitsOf(p) : call.visited[i].act = "converted"

EncryptReturned == call.op = "EncryptDirFiles" /\ call.pc = "returned"

DecryptReturned == call.op = "DecryptDirFiles" /\ call.pc = "returned"

\* C5: Encrypt-tree postcondition: after EncryptDirFiles(root, S) returned
\* nil, the tree holds as many regular files as before, directory by
\* directory, each named with the 64 lowercase hex characters of the HMAC
\* under S of its contents and readable by the owner only; no original file
\* remains, and the directories are unchanged.
C5_EncryptTreePostcondition ==
    (EncryptReturned /\ call.ret.kind = "nil") =>
        /\ Cardinality(FilesOf(fs)) = Cardinality(FilesOf(hist.start))
        /\ \A d \in DOMAIN hist.start :
              Cardinality({p \in FilesOf(fs) : Dir(p) = d})
                  = Cardinality({p \in FilesOf(hist.start) : Dir(p) = d})
        /\ \A p \in FilesOf(fs) :
              /\ sha256HexRegexp(Base(p))
              /\ Base(p) = hexEncode(hmacSum(call.key, fs[p].data))
              /\ fs[p].perm = ArtifactPerm
        /\ \A p \in FilesOf(hist.start) : p \notin DOMAIN fs
        /\ \A p \in DOMAIN hist.start :
              hist.start[p].kind = "dir" => p \in DOMAIN fs /\ fs[p] = hist.start[p]

\* C6: Tree round-trip: after EncryptDirFiles(root, S) and then
\* DecryptDirFiles(root, S), both returning nil, every original file is at
\* its original path with its contents and permission bits, and the tree
\* holds no hex-named file that the original tree did not hold.
C6_TreeRoundTrip ==
    (DecryptReturned /\ call.ret.kind = "nil" /\ hist.encRet.kind = "nil"
         /\ call.key = OwnerKey) =>
        /\ \A p \in FilesOf(hist.orig) :
              /\ p \in DOMAIN fs
              /\ fs[p].kind = "file"
              /\ fs[p].data = hist.orig[p].data
              /\ fs[p].perm = hist.orig[p].perm
        /\ \A p \in FilesOf(fs) : sha256HexRegexp(Base(p)) => p \in DOMAIN hist.orig

\* the files of the start of the call whose name is no 64-character
\* lowercase hex string
OrdinaryFiles == {p \in FilesOf(hist.start) : ~sha256HexRegexp(Base(p))}

\* C7: Mixed-tree decrypt: during and after DecryptDirFiles, every file
\* that existed at the start of the call and whose base name is no
\* 64-character lowercase hex string is where it was, with the contents and
\* metadata it had, it was never handed to DecryptFile, and the walk did
\* not return an error for it.
C7_MixedTreeDecrypt ==
    call.op = "DecryptDirFiles" =>
        \A p \in OrdinaryFiles :
            /\ p \in DOMAIN fs
            /\ fs[p] = hist.start[p]
            /\ \A i \in VisitsOf(p) :
                  call.visited[i].act \notin {"fail", "made", "kept", "converted"}
            /\ call.ret.kind = "error" => call.ret.path # p

\* a DecryptDirFiles call returned nil over a tree with an artifact, which
\* it converted, and an ordinary file, which it skipped
C7_Witness ==
    /\ DecryptReturned /\ call.ret.kind = "nil"
    /\ \E i \in 1..Len(call.visited) : call.visited[i].act = "converted"
    /\ \E p \in OrdinaryFiles : \E i \in VisitsOf(p) : call.visited[i].act = "skip"

\* C8: Non-regular entries are never touched by a walk: every directory,
\* symlink and named pipe of the start of the call is where it was and as it
\* was, and each time the walk met it the callback returned nil without
\* handing it to EncryptFile or DecryptFile.
C8_NonRegularUntouched ==
    call.op \in {"EncryptDirFiles", "DecryptDirFiles"} =>
        \A p \in DOMAIN hist.start :
            hist.start[p].kind # "file" =>
                /\ p \in DOMAIN fs
                /\ fs[p] = hist.start[p]
                /\ \A i \in VisitsOf(p) : call.visited[i].act \in {"dir", "direrr", "skip"}

\* the call returned an error
ErrorReturned == call.pc = "returned" /\ call.ret.kind = "error"

\* C9: Abort on first error with prefix completion: a callback invocation
\* in which EncryptFile, DecryptFile or the removal fails is the last one of
\* the walk, and the call returns that error; then every entry handed to
\* the callback before it was skipped or is converted (source gone,
\* counterpart there), and every entry of the start of the call that was
\* not handed to the callback is unchanged.
C9_AbortOnFirstError ==
    /\ \A i \in 1..Len(call.visited) :
          call.visited[i].act \in {"fail", "kept"} =>
              /\ i = Len(call.visited)
              /\ ErrorReturned
              /\ call.ret.err = call.visited[i].err
              /\ call.ret.path = call.visited[i].path
    /\ ErrorReturned =>
          /\ call.visited # <<>>
          /\ LastVisit.act \in {"fail", "kept"}
          /\ \A i \in 1..(Len(call.visited) - 1) :
                /\ call.visited[i].act \in {"dir", "direrr", "skip", "converted"}
                /\ call.visited[i].act = "skip" =>
                      Skips(hist.start[call.visited[i].path], Base(call.visited[i].path))
                /\ call.visited[i].act = "converted" =>
                      /\ call.visited[i].path \notin DOMAIN fs
                      /\ call.visited[i].out \in DOMAIN fs
                      /\ fs[call.visited[i].out].kind = "file"
          /\ \A p \in DOMAIN hist.start :
                VisitsOf(p) = {} => p \in DOMAIN fs /\ fs[p] = hist.start[p]

\* a walk was stopped by an error after it had converted an entry and
\* before it had met every entry
C9_Witness ==
    /\ ErrorReturned
    /\ \E i \in 1..(Len(call.visited) - 1) : call.visited[i].act = "converted"
    /\ \E p \in DOMAIN hist.start : Under(call.root, p) /\ VisitsOf(p) = {}

\* the files the callback of the call converts: every regular file for
\* EncryptDirFiles, every hex-named file for DecryptDirFiles
Eligible(p) ==
    hist.start[p].kind = "file"
        /\ (call.op = "DecryptDirFiles" => sha256HexRegexp(Base(p)))

\* C10: No error is swallowed by a walk: a call returns to its caller, with
\* an error when the stat of the root or of an entry, the enumeration of a
\* directory, EncryptFile, DecryptFile or a removal failed; it returns nil
\* only when every regular file (encrypt) or every hex-named file (decrypt)
\* under root was converted.
C10_NoErrorSwallowed ==
    call.pc = "returned" =>
        /\ call.ret.kind \in {"nil", "error"}
        /\ Lstat(hist.start, call.root).err # "" => call.ret.kind = "error"
        /\ (\E i \in 1..Len(call.visited) :
                call.visited[i].act \in {"direrr", "fail", "kept", "panic"})
               => call.ret.kind = "error"
        /\ call.ret.kind = "nil" =>
              \A p \in DOMAIN hist.start :
                  (Under(call.root, p) /\ Eligible(p)) => WasConverted(p)

\* the callback invocations in which DecryptFile got the authentic artifact
\* of an archive without an entry, with the Secret it was made with
EmptyArchiveVisits ==
    {i \in 1..Len(call.visited) :
        /\ call.op = "DecryptDirFiles" /\ call.key = OwnerKey
        /\ call.visited[i].path = EmptyArchiveArtifact.path
        /\ call.visited[i].path \in DOMAIN hist.start
        /\ hist.start[call.visited[i].path] = EmptyArchiveArtifact.entry}

\* C13: Empty archive is a no-op: DecryptFile on a correctly named,
\* authentic artifact whose payload is an archive without an entry returns
\* without error or crash and restores no file.
C13_EmptyArchiveNoOp ==
    \A i \in EmptyArchiveVisits :
        /\ call.visited[i].act \notin {"panic", "fail"}
        /\ call.visited[i].out = <<>>
        /\ DOMAIN fs \subseteq DOMAIN hist.start

\* the entry of an archive: its header and contents, nil when there is none
EntryOf(archive) == Only({[nil |-> t.nil, hdr |-> t.hdr, body |-> t.body] : t \in {tarNext(archive)}})

\* the file at out is the artifact of the start file p: closed, in the
\* directory of p, and under the call's Secret it authenticates and
\* decrypts to the name, mode and contents of p
IsArtifactOf(out, p) ==
    /\ out \in DOMAIN fs /\ fs[out].kind = "file" /\ Dir(out) = Dir(p)
    /\ Only({/\ d.err = ""
             /\ ~EntryOf(d.out).nil
             /\ EntryOf(d.out).hdr.Name = Base(p)
             /\ EntryOf(d.out).hdr.Mode = hist.start[p].perm
             /\ EntryOf(d.out).body = hist.start[p].data :
             d \in {Decrypt(fs[out].data, Base(out), call.key)}})

\* the file at out is the original that the start artifact p holds, whole
IsOriginalOf(out, p) ==
    /\ out \in DOMAIN fs /\ fs[out].kind = "file" /\ Dir(out) = Dir(p)
    /\ Only({/\ d.err = ""
             /\ ~EntryOf(d.out).nil
             /\ EntryOf(d.out).hdr.Name = Base(out)
             /\ EntryOf(d.out).hdr.Size = Len(fs[out].data)
             /\ EntryOf(d.out).body = fs[out].data :
             d \in {Decrypt(hist.start[p].data, Base(p), call.key)}})

\* the start file p is there as it was, or its counterpart is
Represented(p) ==
    \/ p \in DOMAIN fs /\ fs[p] = hist.start[p]
    \/ \E i \in VisitsOf(p) :
          /\ call.visited[i].act \in {"made", "kept", "converted"}
          /\ IF call.op = "EncryptDirFiles" THEN IsArtifactOf(call.visited[i].out, p)
             ELSE IsOriginalOf(call.visited[i].out, p)

\* C14: No data loss at any step of a walk: in every state of an
\* EncryptDirFiles or DecryptDirFiles call, also after it was aborted, each
\* file of the start of the call is there unchanged or has its complete
\* counterpart (the artifact that authenticates and decrypts to it, or the
\* restored original); a file that is gone was handed to EncryptFile or
\* DecryptFile, which returned success before the removal.
C14_NoDataLoss ==
    call.op \in {"EncryptDirFiles", "DecryptDirFiles"} =>
        \A p \in FilesOf(hist.start) :
            /\ Represented(p)
            /\ p \notin DOMAIN fs => WasConverted(p)

\* in the middle of a walk: one file is converted, the next one has its
\* counterpart and is not removed yet
C14_Witness ==
    /\ call.pc = "remove"
    /\ \E i \in 1..Len(call.visited) : call.visited[i].act = "converted"
    /\ call.cur \in DOMAIN fs /\ LastVisit.out \in DOMAIN fs

\* a walk was aborted and left converted and unconverted files
C14_WitnessAbort ==
    /\ call.pc = "returned" /\ call.ret.kind # "nil"
    /\ \E p \in FilesOf(hist.start) : p \notin DOMAIN fs
    /\ \E p \in FilesOf(hist.start) : p \in DOMAIN fs

====
